---- MODULE Spec2Model ----
(***************************************************************************)
(* State-machine model of the gittuf terminal console (package tui):       *)
(* model.Update and its handlers (internal/cmd/tui/update.go), the model   *)
(* construction and the list/form helpers (unnamed/part_000).              *)
(*                                                                         *)
(* Strings that the code splits, joins, parses or appends to (field        *)
(* values, rule names, patterns, keys) are sequences of characters; the    *)
(* footer, the key names and the screen names are TLA+ strings.            *)
(* Go indexes are kept 0-based: element i of a Go slice s is s[i + 1].     *)
(*                                                                         *)
(* The bubbles list.Model is modelled by its items and its cursor, for a   *)
(* window tall enough to show all items on one page (Index() = cursor):    *)
(* SetItems keeps the cursor, and only list.Update brings it back inside   *)
(* the items.  The store behind repoAddRule, getCurrRules, ... is not part *)
(* of these sources; it is modelled from the design document's section 6.  *)
(***************************************************************************)
EXTENDS Integers, Sequences, FiniteSets, TLC

\* ------------------------------------------------------------------ bounds

\* The length of a run: the number of characters typed into form fields plus
\* the number of calls of the store's mutating operations.
MaxInputs == 2

\* ------------------------------------------------------- program constants

\* textinput CharLimit set by initInputs.
CharLimit == 64

\* tuf.GlobalRuleThresholdType
GlobalRuleThresholdType == <<"threshold">>

BlockForcePushesType == <<"block-force-pushes">>

screenChoice == "Choice"
screenPolicy == "Policy"
screenPolicyRules == "PolicyRules"
screenPolicyAddRule == "PolicyAddRule"
screenPolicyEditRule == "PolicyEditRule"
screenTrust == "Trust"
screenTrustGlobalRules == "TrustGlobalRules"
screenTrustAddGlobalRule == "TrustAddGlobalRule"
screenTrustEditGlobalRule == "TrustEditGlobalRule"

Screens ==
  { screenChoice, screenPolicy, screenPolicyRules, screenPolicyAddRule,
    screenPolicyEditRule, screenTrust, screenTrustGlobalRules,
    screenTrustAddGlobalRule, screenTrustEditGlobalRule }

PolicyFormScreens == { screenPolicyAddRule, screenPolicyEditRule }
GlobalFormScreens == { screenTrustAddGlobalRule, screenTrustEditGlobalRule }
FormScreens == PolicyFormScreens \cup GlobalFormScreens
MenuScreens == { screenChoice, screenPolicy, screenTrust }
ListScreens == { screenPolicyRules, screenTrustGlobalRules }

\* Titles of the items of the three fixed menus built by initialModel.
ChoiceItems == <<"Policy", "Trust">>
PolicyScreenItems == <<"View Rules">>
TrustScreenItems == <<"View Global Rules">>

\* Number of fields of the two forms (initRuleInputs, initGlobalRuleInputs).
RuleFields == <<"Rule Name:", "Pattern:", "Authorize Principal:">>
GlobalRuleFields == <<"Rule Name:", "Type:", "Namespaces:", "Threshold:">>

\* ------------------------------------------------------------- the events

\* Key names as tea.KeyMsg.String() gives them.
FocusKeys == { "tab", "shift+tab", "up", "down" }
RuneKeys == { "q", "a", "e", "d", "u", "k", "j", "y", "Y", "n" }
Keys == { "ctrl+c", "esc", "enter" } \cup FocusKeys \cup RuneKeys

\* The characters the user types while a form screen is active.
TypedRunes == { "q" }

\* The messages other than keys: tea.WindowSizeMsg and any other message
\* (the cursor blink tick that Init schedules).
NonKeyMsgs == { "resize", "tick" }

\* The error text of a failing store call (a StoreError's %v).
StoreErr == "store error"

Digits == <<"0", "1", "2", "3", "4", "5", "6", "7", "8", "9">>

\* --------------------------------------------------------- pure functions

Max(a, b) == IF a > b THEN a ELSE b

\* strings.TrimSpace on a sequence of characters.
RECURSIVE TrimLeft(_)
TrimLeft(s) ==
  IF s # <<>> /\ Head(s) = " " THEN TrimLeft(Tail(s)) ELSE s

RECURSIVE TrimRight(_)
TrimRight(s) ==
  IF s # <<>> /\ s[Len(s)] = " " THEN TrimRight(SubSeq(s, 1, Len(s) - 1)) ELSE s

TrimSpace(s) == TrimRight(TrimLeft(s))

\* strings.Split(s, ","): always at least one part.
RECURSIVE Split(_, _)
Split(s, cur) ==
  IF s = <<>> THEN <<cur>>
  ELSE IF Head(s) = "," THEN <<cur>> \o Split(Tail(s), <<>>)
  ELSE Split(Tail(s), Append(cur, Head(s)))

splitAndTrim(s) ==
  LET parts == Split(s, <<>>) IN [i \in 1..Len(parts) |-> TrimSpace(parts[i])]

\* strings.Join(parts, ", ")
RECURSIVE Join(_)
Join(parts) ==
  IF parts = <<>> THEN <<>>
  ELSE IF Len(parts) = 1 THEN parts[1]
  ELSE parts[1] \o <<",", " ">> \o Join(Tail(parts))

DigitValue(c) == CHOOSE d \in 0..9 : Digits[d + 1] = c

IsDigit(c) == \E d \in 0..9 : Digits[d + 1] = c

\* A Go int (64 bits) is modelled by its sign and the decimal digits of its
\* magnitude without leading zeros, so that the values near the ends of the
\* int range can be told apart.
RECURSIVE NatDigits(_)
NatDigits(n) ==
  IF n < 10 THEN <<Digits[n + 1]>> ELSE Append(NatDigits(n \div 10), Digits[(n % 10) + 1])

GoInt(n) == [neg |-> n < 0, mag |-> NatDigits(IF n < 0 THEN 0 - n ELSE n)]

\* math.MaxInt64 and the magnitude of math.MinInt64.
MaxInt64Mag ==
  << "9", "2", "2", "3", "3", "7", "2", "0", "3", "6", "8", "5", "4", "7",
     "7", "5", "8", "0", "7" >>
MinInt64Mag ==
  << "9", "2", "2", "3", "3", "7", "2", "0", "3", "6", "8", "5", "4", "7",
     "7", "5", "8", "0", "8" >>

RECURSIVE StripZeros(_)
StripZeros(ds) ==
  IF Len(ds) > 1 /\ Head(ds) = "0" THEN StripZeros(Tail(ds)) ELSE ds

\* a > b for two magnitudes without leading zeros.
RECURSIVE MagGreater(_, _)
MagGreater(a, b) ==
  IF Len(a) # Len(b) THEN Len(a) > Len(b)
  ELSE IF a = <<>> THEN FALSE
  ELSE IF Head(a) # Head(b) THEN DigitValue(Head(a)) > DigitValue(Head(b))
  ELSE MagGreater(Tail(a), Tail(b))

\* strconv.Atoi with the error discarded (thr, _ = strconv.Atoi(...)): 0 on a
\* syntax error; on a range error the end of the int range on the side of
\* the sign; the value otherwise.
Atoi(s) ==
  LET signed == s # <<>> /\ Head(s) \in {"+", "-"}
      neg == signed /\ Head(s) = "-"
      body == IF signed THEN Tail(s) ELSE s
      mag == StripZeros(body)
  IN IF body = <<>> \/ \E i \in 1..Len(body) : ~IsDigit(body[i]) THEN GoInt(0)
     ELSE IF neg /\ MagGreater(mag, MinInt64Mag)
          THEN [neg |-> TRUE, mag |-> MinInt64Mag]
     ELSE IF ~neg /\ MagGreater(mag, MaxInt64Mag)
          THEN [neg |-> FALSE, mag |-> MaxInt64Mag]
     ELSE [neg |-> neg /\ mag # <<"0">>, mag |-> mag]

\* fmt.Sprintf("%d", n)
FormatInt(n) == IF n.neg THEN <<"-">> \o n.mag ELSE n.mag

\* The Go swap s[i], s[j] = s[j], s[i] (0-based i, j within the slice).
Swap(s, i, j) == [s EXCEPT ![i + 1] = s[j + 1], ![j + 1] = s[i + 1]]

\* textinput.SetValue: the value cut at CharLimit.
SetValue(s) == IF Len(s) > CharLimit THEN SubSeq(s, 1, CharLimit) ELSE s

\* ---------------------------------------------------------- bubbles list

\* list.Model.Index() for a one-page list.
ListIndex(cursor) == cursor

\* list.Model.SelectedItem(): ok only when the index is inside the items.
HasSelected(items, cursor) ==
  ListIndex(cursor) >= 0 /\ ListIndex(cursor) < Len(items)

\* The title of list.Model.SelectedItem().
SelectedTitleFirst(items, cursor) == items[1]

SelectedTitle(items, cursor) == items[ListIndex(cursor) + 1]

\* list.Model.Update(msg): up/k and down/j move the cursor, every message
\* ends with the cursor brought back inside the items.
ListUpdate(items, cursor, msg) ==
  LET n == Len(items)
      moved ==
        IF msg \in {"up", "k"} THEN Max(0, cursor - 1)
        ELSE IF msg \in {"down", "j"} THEN
          IF cursor + 1 < n THEN cursor + 1
          ELSE IF cursor + 1 > n THEN 0
          ELSE n - 1
        ELSE cursor
  IN IF moved > n - 1 THEN Max(0, n - 1) ELSE moved

\* ------------------------------------------------------------- the store

\* The rules and global rules the repository holds at startup.
R1 == [name |-> <<"A">>, pattern |-> <<"m">>, key |-> <<"x">>]
R2 == [name |-> <<"B">>, pattern |-> <<"n">>, key |-> <<"x", ",", "z">>]
G1 == [ruleName |-> <<"G">>, ruleType |-> GlobalRuleThresholdType,
       rulePatterns |-> << <<"m">> >>, threshold |-> GoInt(2)]

InitStoreRules == <<R1, R2>>
InitStoreGlobalRules == <<G1>>

\* Position (1-based) of the first entry of s whose field f equals v, 0 if none.
FirstIndex(s, f, v) ==
  IF \E i \in 1..Len(s) : s[i][f] = v
  THEN CHOOSE i \in 1..Len(s) : s[i][f] = v /\ \A j \in 1..(i - 1) : s[j][f] # v
  ELSE 0

RemoveAt(s, i) == SubSeq(s, 1, i - 1) \o SubSeq(s, i + 1, Len(s))

\* addRule / addGlobalRule: the store appends an entry with a new name.
StoreCanAdd(store, f, e) == FirstIndex(store, f, e[f]) = 0
StoreAdd(store, e) == Append(store, e)

\* updateRule / updateGlobalRule: the entry of that name is replaced.
StoreCanUpdate(store, f, e) == FirstIndex(store, f, e[f]) # 0
StoreUpdate(store, f, e) == [store EXCEPT ![FirstIndex(store, f, e[f])] = e]

\* removeRule / removeGlobalRule: the entry of that name is removed.
StoreCanRemove(store, f, name) == FirstIndex(store, f, name) # 0
StoreRemove(store, f, name) == RemoveAt(store, FirstIndex(store, f, name))

\* The outcomes of a store call: it may always fail with a StoreError, and it
\* may succeed when the store accepts the request.
Outcomes(canSucceed) == IF canSucceed THEN {TRUE, FALSE} ELSE {FALSE}

Call(op, arg, ok) == [op |-> op, arg |-> arg, ok |-> ok]

NoCall == Call("none", <<>>, TRUE)

\* ------------------------------------------------------------------ state

VARIABLES
  options,          \* what initialModel was given: read-only request, loaders' results
  status,           \* "running", "quit" (tea.Quit), "panic", "aborted" (no model)
  screen,
  choiceCursor,     \* cursor of choiceList
  rules,            \* m.rules, the canonical rule sequence
  ruleItems,        \* titles of the items of m.ruleList
  ruleCursor,       \* cursor of m.ruleList
  globalRules,      \* m.globalRules
  globalItems,      \* titles of the items of m.globalRuleList
  globalCursor,     \* cursor of m.globalRuleList
  inputs,           \* m.inputs: the value of each text input
  focused,          \* m.inputs: whether each text input has the focus
  focusIndex,
  footer,
  readOnly,
  confirmDelete,
  deleteTarget,
  storeRules,       \* what getCurrRules returns
  storeGlobalRules, \* what getGlobalRules returns
  typed,            \* characters typed so far
  calls,            \* mutating store calls made so far
  cycles,           \* FocusSpec only: forward minus backward cycleFocus calls
  lastCall,         \* the mutating store call the last Update call made
  started           \* whether Update has handled a message since initialModel

vars ==
  << options, status, screen, choiceCursor, rules, ruleItems, ruleCursor,
     globalRules, globalItems, globalCursor, inputs, focused, focusIndex,
     footer, readOnly, confirmDelete, deleteTarget, storeRules,
     storeGlobalRules, typed, calls, cycles, lastCall, started >>

listVars == << choiceCursor, ruleItems, ruleCursor, globalItems, globalCursor >>
ruleVars == << rules, ruleItems, ruleCursor >>
globalVars == << globalRules, globalItems, globalCursor >>
formVars == << inputs, focused, focusIndex, typed >>
deleteVars == << confirmDelete, deleteTarget >>
storeVars == << storeRules, storeGlobalRules >>

\* initInputs: empty values, the first field focused.
initInputsValues(fields) == [i \in 1..Len(fields) |-> <<>>]
initInputsFocus(fields) == [i \in 1..Len(fields) |-> i = 1]

\* updateRuleList / updateGlobalRuleList: the titles of the rebuilt items.
RuleTitles(rs) == [i \in 1..Len(rs) |-> rs[i].name]
GlobalRuleTitles(gs) == [i \in 1..Len(gs) |-> gs[i].ruleName]

\* The ways initialModel can be called: the read-only flag, and what
\* LoadRepository and LoadSigner return (LoadSigner is not called when
\* read-only was requested).
InitOptions ==
  { [readOnly |-> FALSE, repo |-> "ok", signer |-> "ok"],
    [readOnly |-> FALSE, repo |-> "ok", signer |-> "ErrSigningKeyNotSpecified"],
    [readOnly |-> FALSE, repo |-> "ok", signer |-> "error"],
    [readOnly |-> TRUE, repo |-> "ok", signer |-> "not loaded"],
    [readOnly |-> FALSE, repo |-> "error", signer |-> "not loaded"] }

NoKeyFooter == "No signing key found in Git config, running in read-only mode."

initialModelFails(o) == o.repo # "ok" \/ (~o.readOnly /\ o.signer = "error")

Init ==
  /\ options \in InitOptions
  /\ status = IF initialModelFails(options) THEN "aborted" ELSE "running"
  /\ screen = screenChoice
  /\ choiceCursor = 0
  /\ storeRules = InitStoreRules
  /\ storeGlobalRules = InitStoreGlobalRules
  /\ rules = IF initialModelFails(options) THEN <<>> ELSE storeRules
  /\ globalRules = IF initialModelFails(options) THEN <<>> ELSE storeGlobalRules
  /\ ruleItems = <<>>
  /\ ruleCursor = 0
  /\ globalItems = <<>>
  /\ globalCursor = 0
  /\ inputs = IF initialModelFails(options) THEN <<>> ELSE initInputsValues(RuleFields)
  /\ focused = IF initialModelFails(options) THEN <<>> ELSE initInputsFocus(RuleFields)
  /\ focusIndex = 0
  /\ readOnly =
       (~initialModelFails(options)
          /\ (options.readOnly \/ options.signer = "ErrSigningKeyNotSpecified"))
  /\ footer =
       IF ~initialModelFails(options) /\ ~options.readOnly
            /\ options.signer = "ErrSigningKeyNotSpecified"
       THEN NoKeyFooter ELSE ""
  /\ confirmDelete = FALSE
  /\ deleteTarget = <<>>
  /\ typed = 0
  /\ calls = 0
  /\ cycles = 0
  /\ lastCall = NoCall
  /\ started = FALSE

\* --------------------------------------------------------------- helpers

fixedVars == << options, readOnly >>

\* A Go run-time panic (index out of range) ends the program.
Panic ==
  /\ status' = "panic"
  /\ lastCall' = NoCall
  /\ UNCHANGED << fixedVars, screen, listVars, rules, globalRules, formVars,
                  footer, deleteVars, storeVars >>

\* The footer of a failed call: fmt.Sprintf(prefix + "%v", err).
ErrorFooterWithoutDetail(prefix) == prefix

ErrorFooter(prefix) == prefix \o StoreErr

\* ------------------------------------------------------------ cycleFocus

BackwardKeys == { "up", "shift+tab" }

\* The focus index cycleFocus leaves, for n input fields.
cycleFocusIndexNoWrap(key, fi, n) ==
  IF key \in BackwardKeys THEN Max(0, fi - 1)
  ELSE IF fi < n - 1 THEN fi + 1 ELSE fi

cycleFocusIndex(key, fi, n) ==
  IF key \in BackwardKeys
  THEN IF fi > 0 THEN fi - 1 ELSE n - 1
  ELSE IF fi < n - 1 THEN fi + 1 ELSE 0

\* The footer cycleFocus leaves: cleared when the index moves back by one.
cycleFocusFooter(key, fi, ft) ==
  IF key \in BackwardKeys /\ fi > 0 THEN "" ELSE ft

\* Focus()/Blur() of every field after the move.
FocusOnlyKeepsFirst(n, fi) == [i \in 1..n |-> i - 1 = fi \/ i = 1]

FocusOnly(n, fi) == [i \in 1..n |-> i - 1 = fi]

cycleFocus(key) ==
  /\ focusIndex' = cycleFocusIndex(key, focusIndex, Len(inputs))
  /\ footer' = cycleFocusFooter(key, focusIndex, footer)
  /\ focused' = FocusOnly(Len(inputs), focusIndex')
  /\ lastCall' = NoCall
  /\ UNCHANGED << fixedVars, status, screen, listVars, rules, globalRules,
                  inputs, typed, deleteVars, storeVars >>

\* --------------------------------------------------------- form creation

initRuleInputs ==
  /\ inputs' = initInputsValues(RuleFields)
  /\ focused' = initInputsFocus(RuleFields)
  /\ focusIndex' = 0

\* The field values initRuleInputsPrefilled sets from a rule.
RuleInputValues(r) == << SetValue(r.name), SetValue(r.pattern), SetValue(r.key) >>

initRuleInputsPrefilled(r) ==
  /\ inputs' = RuleInputValues(r)
  /\ focused' = initInputsFocus(RuleFields)
  /\ focusIndex' = 0

initGlobalRuleInputs ==
  /\ inputs' = initInputsValues(GlobalRuleFields)
  /\ focused' = initInputsFocus(GlobalRuleFields)
  /\ focusIndex' = 0

\* The field values initGlobalRuleInputsPrefilled sets from a global rule:
\* the threshold field is set only for the threshold type.
GlobalRuleInputValues(gr) ==
  << SetValue(gr.ruleName), SetValue(gr.ruleType),
     SetValue(Join(gr.rulePatterns)),
     IF gr.ruleType = GlobalRuleThresholdType
     THEN SetValue(FormatInt(gr.threshold)) ELSE <<>> >>

initGlobalRuleInputsPrefilled(gr) ==
  /\ inputs' = GlobalRuleInputValues(gr)
  /\ focused' = initInputsFocus(GlobalRuleFields)
  /\ focusIndex' = 0

\* -------------------------------------------------------------- refresh

\* refreshRules: m.rules = getCurrRules(), then updateRuleList (SetItems
\* keeps the cursor where it is).
refreshRulesFromMemory ==
  /\ rules' = rules
  /\ ruleItems' = RuleTitles(rules)
  /\ ruleCursor' = ruleCursor

refreshRules ==
  /\ rules' = storeRules'
  /\ ruleItems' = RuleTitles(storeRules')
  /\ ruleCursor' = ruleCursor

refreshGlobalRulesKeepsView ==
  /\ globalRules' = storeGlobalRules'
  /\ UNCHANGED << globalItems, globalCursor >>

refreshGlobalRules ==
  /\ globalRules' = storeGlobalRules'
  /\ globalItems' = GlobalRuleTitles(storeGlobalRules')
  /\ globalCursor' = globalCursor

\* ------------------------------------------------------------- handlers

\* tea.Quit: "ctrl+c" anywhere, "q" outside the form screens.
Quit ==
  /\ status' = "quit"
  /\ lastCall' = NoCall
  /\ UNCHANGED << fixedVars, screen, listVars, rules, globalRules, formVars,
                  footer, deleteVars, storeVars >>

\* The screen "esc" leads to.
EscTargetSkipsList(sc) ==
  CASE sc \in PolicyFormScreens \cup { screenPolicyRules } -> screenPolicy
    [] sc \in GlobalFormScreens \cup { screenTrustGlobalRules } -> screenTrust
    [] OTHER -> screenChoice

EscTarget(sc) ==
  CASE sc \in { screenPolicy, screenTrust } -> screenChoice
    [] sc = screenPolicyRules -> screenPolicy
    [] sc \in PolicyFormScreens -> screenPolicyRules
    [] sc = screenTrustGlobalRules -> screenTrust
    [] sc \in GlobalFormScreens -> screenTrustGlobalRules
    [] OTHER -> sc

EscKeepsFooter ==
  /\ screen' = EscTarget(screen)
  /\ lastCall' = NoCall
  /\ UNCHANGED << fixedVars, status, listVars, rules, globalRules, formVars,
                  footer, deleteVars, storeVars >>

Esc ==
  /\ footer' = ""
  /\ screen' = EscTarget(screen)
  /\ lastCall' = NoCall
  /\ UNCHANGED << fixedVars, status, listVars, rules, globalRules, formVars,
                  deleteVars, storeVars >>

\* handleEnter on the three menu screens.
handleEnter ==
  /\ lastCall' = NoCall
  /\ UNCHANGED << fixedVars, status, choiceCursor, formVars, footer,
                  deleteVars, storeVars >>
  /\ CASE screen = screenChoice ->
            /\ screen' =
                 IF HasSelected(ChoiceItems, choiceCursor)
                 THEN IF SelectedTitle(ChoiceItems, choiceCursor) = "Policy"
                      THEN screenPolicy
                      ELSE IF SelectedTitle(ChoiceItems, choiceCursor) = "Trust"
                           THEN screenTrust ELSE screen
                 ELSE screen
            /\ UNCHANGED << ruleVars, globalVars >>
       [] screen = screenPolicy ->
            /\ screen' = screenPolicyRules
            /\ refreshRules
            /\ UNCHANGED globalVars
       [] screen = screenTrust ->
            /\ screen' = screenTrustGlobalRules
            /\ refreshGlobalRules
            /\ UNCHANGED ruleVars

\* The "Delegate to active bubbles component per screen" tail of Update, for
\* the menu and list screens: the active list handles the message.
DelegateToList(msg) ==
  /\ lastCall' = NoCall
  /\ choiceCursor' =
       IF screen = screenChoice THEN ListUpdate(ChoiceItems, choiceCursor, msg)
       ELSE choiceCursor
  /\ ruleCursor' =
       IF screen = screenPolicyRules THEN ListUpdate(ruleItems, ruleCursor, msg)
       ELSE ruleCursor
  /\ globalCursor' =
       IF screen = screenTrustGlobalRules
       THEN ListUpdate(globalItems, globalCursor, msg)
       ELSE globalCursor
  /\ UNCHANGED << fixedVars, status, screen, rules, ruleItems, globalRules,
                  globalItems, formVars, footer, deleteVars, storeVars >>

\* textinput.Update of a key: a focused field appends the character.
InputInsert(v, isFocused, key) ==
  IF isFocused /\ key \in RuneKeys /\ Len(v) < CharLimit THEN Append(v, key) ELSE v

\* The same tail on a form screen: the field at focusIndex handles the message.
DelegateToInput(msg) ==
  IF focusIndex >= Len(inputs) THEN Panic
  ELSE
    /\ inputs' =
         [inputs EXCEPT ![focusIndex + 1] =
            InputInsert(inputs[focusIndex + 1], focused[focusIndex + 1], msg)]
    /\ typed' = IF inputs' # inputs THEN typed + 1 ELSE typed
    /\ lastCall' = NoCall
    /\ UNCHANGED << fixedVars, status, screen, listVars, rules, globalRules,
                    focused, focusIndex, footer, deleteVars, storeVars >>

\* handleReorderUp / handleReorderDown share the swap-and-persist body.
reorder(i, j) ==
  \E ok \in Outcomes(TRUE) :
    /\ rules' = Swap(rules, i, j)
    /\ storeRules' = IF ok THEN rules' ELSE storeRules
    /\ lastCall' = Call("reorderRules", rules', ok)
    /\ ruleItems' = IF ok THEN RuleTitles(rules') ELSE ruleItems
    /\ footer' =
         IF ok THEN "Rules reordered successfully!"
         ELSE ErrorFooter("Error reordering rules: ")

handleReorderUp ==
  LET i == ListIndex(ruleCursor) IN
  IF i > 0
  THEN IF i >= Len(rules) THEN Panic
       ELSE /\ reorder(i, i - 1)
            /\ UNCHANGED << fixedVars, status, screen, choiceCursor, ruleCursor,
                            globalVars, formVars, deleteVars, storeGlobalRules >>
  ELSE /\ lastCall' = NoCall
       /\ UNCHANGED << fixedVars, status, screen, listVars, rules, globalRules,
                       formVars, footer, deleteVars, storeVars >>

handleReorderDown ==
  LET i == ListIndex(ruleCursor) IN
  IF i < Len(rules) - 1
  THEN /\ reorder(i, i + 1)
       /\ UNCHANGED << fixedVars, status, screen, choiceCursor, ruleCursor,
                       globalVars, formVars, deleteVars, storeGlobalRules >>
  ELSE /\ lastCall' = NoCall
       /\ UNCHANGED << fixedVars, status, screen, listVars, rules, globalRules,
                       formVars, footer, deleteVars, storeVars >>

\* The "a" branch of handleRulesListKey.
openAddForm ==
  /\ IF screen = screenPolicyRules
     THEN initRuleInputs /\ screen' = screenPolicyAddRule
     ELSE initGlobalRuleInputs /\ screen' = screenTrustAddGlobalRule
  /\ lastCall' = NoCall
  /\ UNCHANGED << fixedVars, status, listVars, rules, globalRules, typed,
                  footer, deleteVars, storeVars >>

\* The "e" branch: the first entity whose name is the selected title, if any.
EditMatchAtCursor ==
  IF screen = screenPolicyRules
  THEN IF HasSelected(ruleItems, ruleCursor) /\ ruleCursor < Len(rules)
       THEN ruleCursor + 1 ELSE 0
  ELSE IF HasSelected(globalItems, globalCursor) /\ globalCursor < Len(globalRules)
       THEN globalCursor + 1 ELSE 0

EditMatch ==
  IF screen = screenPolicyRules
  THEN IF HasSelected(ruleItems, ruleCursor)
       THEN FirstIndex(rules, "name", SelectedTitle(ruleItems, ruleCursor))
       ELSE 0
  ELSE IF HasSelected(globalItems, globalCursor)
       THEN FirstIndex(globalRules, "ruleName", SelectedTitle(globalItems, globalCursor))
       ELSE 0

openEditForm ==
  /\ IF screen = screenPolicyRules
     THEN initRuleInputsPrefilled(rules[EditMatch]) /\ screen' = screenPolicyEditRule
     ELSE /\ initGlobalRuleInputsPrefilled(globalRules[EditMatch])
          /\ screen' = screenTrustEditGlobalRule
  /\ lastCall' = NoCall
  /\ UNCHANGED << fixedVars, status, listVars, rules, globalRules, typed,
                  footer, deleteVars, storeVars >>

\* The "d" branch: whether an item is selected on the active list.
DeleteSelected ==
  IF screen = screenPolicyRules THEN HasSelected(ruleItems, ruleCursor)
  ELSE HasSelected(globalItems, globalCursor)

openDeleteConfirm ==
  /\ confirmDelete' = TRUE
  /\ deleteTarget' =
       IF screen = screenPolicyRules THEN SelectedTitle(ruleItems, ruleCursor)
       ELSE SelectedTitle(globalItems, globalCursor)
  /\ lastCall' = NoCall
  /\ UNCHANGED << fixedVars, status, screen, listVars, rules, globalRules,
                  formVars, footer, storeVars >>

\* Whether handleRulesListKey treats the key as a mutating command (the
\* switch under "if !m.readOnly").
MutatingAllowedAlways(ro) == TRUE

MutatingAllowed(ro) == ~ro

handleRulesListKey(key) ==
  IF MutatingAllowed(readOnly) /\ key = "a" THEN openAddForm
  ELSE IF MutatingAllowed(readOnly) /\ key = "e" /\ EditMatch # 0 THEN openEditForm
  ELSE IF MutatingAllowed(readOnly) /\ key = "d" /\ DeleteSelected THEN openDeleteConfirm
  ELSE IF MutatingAllowed(readOnly) /\ key \in {"u", "k"} /\ screen = screenPolicyRules
    THEN handleReorderUp
  ELSE IF MutatingAllowed(readOnly) /\ key = "j" /\ screen = screenPolicyRules
    THEN handleReorderDown
  ELSE DelegateToList(key)

\* The key that confirms a deletion.
IsConfirmKeyAnyCase(key) == key \in { "y", "Y" }

IsConfirmKey(key) == key = "y"

\* The end of handleDeleteConfirm: the overlay is left on every path.
closeOverlayKeepsTarget ==
  /\ confirmDelete' = FALSE
  /\ deleteTarget' = deleteTarget

closeOverlay ==
  /\ confirmDelete' = FALSE
  /\ deleteTarget' = <<>>

handleDeleteConfirm(key) ==
  /\ closeOverlay
  /\ UNCHANGED << fixedVars, status, screen, choiceCursor, formVars >>
  /\ IF IsConfirmKey(key) /\ screen = screenPolicyRules
     THEN \E ok \in Outcomes(StoreCanRemove(storeRules, "name", deleteTarget)) :
            /\ lastCall' = Call("removeRule", deleteTarget, ok)
            /\ storeRules' =
                 IF ok THEN StoreRemove(storeRules, "name", deleteTarget)
                 ELSE storeRules
            /\ footer' =
                 IF ok THEN "Rule removed successfully!"
                 ELSE ErrorFooter("Error removing rule: ")
            /\ IF ok THEN refreshRules ELSE UNCHANGED ruleVars
            /\ UNCHANGED << globalVars, storeGlobalRules >>
     ELSE IF IsConfirmKey(key) /\ screen = screenTrustGlobalRules
     THEN \E ok \in Outcomes(StoreCanRemove(storeGlobalRules, "ruleName", deleteTarget)) :
            /\ lastCall' = Call("removeGlobalRule", deleteTarget, ok)
            /\ storeGlobalRules' =
                 IF ok THEN StoreRemove(storeGlobalRules, "ruleName", deleteTarget)
                 ELSE storeGlobalRules
            /\ footer' =
                 IF ok THEN "Global rule removed!"
                 ELSE ErrorFooter("Error removing global rule: ")
            /\ IF ok THEN refreshGlobalRules ELSE UNCHANGED globalVars
            /\ UNCHANGED << ruleVars, storeRules >>
     ELSE /\ lastCall' = NoCall
          /\ UNCHANGED << ruleVars, globalVars, footer, storeVars >>

\* The test of both submit handlers: Enter submits only on the last field.
OnLastFieldOrBefore(fi, n) == ~(fi < n - 2)

OnLastField(fi, n) == ~(fi < n - 1)

\* The rule and the principals handlePolicyFormSubmit builds from the fields.
FormRule == [name |-> inputs[1], pattern |-> inputs[2], key |-> inputs[3]]
FormPrincipals == splitAndTrim(inputs[3])

handlePolicyFormSubmit ==
  IF ~OnLastField(focusIndex, Len(inputs)) THEN cycleFocus("tab")
  ELSE IF Len(inputs) < 3 THEN Panic
  ELSE
    LET r == FormRule
        op == IF screen = screenPolicyAddRule THEN "addRule" ELSE "updateRule"
        can == IF screen = screenPolicyAddRule
               THEN StoreCanAdd(storeRules, "name", r)
               ELSE StoreCanUpdate(storeRules, "name", r)
    IN \E ok \in Outcomes(can) :
         /\ lastCall' = Call(op, [rule |-> r, principals |-> FormPrincipals], ok)
         /\ storeRules' =
              IF ~ok THEN storeRules
              ELSE IF screen = screenPolicyAddRule THEN StoreAdd(storeRules, r)
              ELSE StoreUpdate(storeRules, "name", r)
         /\ IF ok THEN refreshRules ELSE UNCHANGED ruleVars
         /\ footer' =
              IF ~ok THEN ErrorFooter("Error: ")
              ELSE IF screen = screenPolicyAddRule THEN "Rule added successfully!"
              ELSE "Rule updated successfully!"
         /\ screen' = IF ok THEN screenPolicyRules ELSE screen
         /\ UNCHANGED << fixedVars, status, choiceCursor, globalVars, formVars,
                         deleteVars, storeGlobalRules >>

\* The global rule handleGlobalFormSubmit builds from the fields.
FormGlobalRule ==
  [ruleName |-> inputs[1], ruleType |-> inputs[2],
   rulePatterns |-> splitAndTrim(inputs[3]),
   threshold |-> IF inputs[2] = GlobalRuleThresholdType THEN Atoi(inputs[4])
                 ELSE GoInt(0)]

handleGlobalFormSubmit ==
  IF ~OnLastField(focusIndex, Len(inputs)) THEN cycleFocus("tab")
  ELSE IF Len(inputs) < 4 THEN Panic
  ELSE
    LET gr == FormGlobalRule
        op == IF screen = screenTrustAddGlobalRule THEN "addGlobalRule"
              ELSE "updateGlobalRule"
        can == IF screen = screenTrustAddGlobalRule
               THEN StoreCanAdd(storeGlobalRules, "ruleName", gr)
               ELSE StoreCanUpdate(storeGlobalRules, "ruleName", gr)
    IN \E ok \in Outcomes(can) :
         /\ lastCall' = Call(op, gr, ok)
         /\ storeGlobalRules' =
              IF ~ok THEN storeGlobalRules
              ELSE IF screen = screenTrustAddGlobalRule
                   THEN StoreAdd(storeGlobalRules, gr)
              ELSE StoreUpdate(storeGlobalRules, "ruleName", gr)
         /\ IF ok THEN refreshGlobalRules ELSE UNCHANGED globalVars
         /\ footer' =
              IF ~ok THEN ErrorFooter("Error: ")
              ELSE IF screen = screenTrustAddGlobalRule THEN "Global rule added!"
              ELSE "Global rule updated!"
         /\ screen' = IF ok THEN screenTrustGlobalRules ELSE screen
         /\ UNCHANGED << fixedVars, status, choiceCursor, ruleVars, formVars,
                         deleteVars, storeRules >>

\* ------------------------------------------------------------- Update

\* The tail of Update: the active component handles the message.
Delegate(msg) ==
  IF screen \in FormScreens THEN DelegateToInput(msg) ELSE DelegateToList(msg)

\* The key of the global case that returns tea.Quit on every screen.
ForceQuitKeyCtrlQ(key) == key = "ctrl+q"

ForceQuitKey(key) == key = "ctrl+c"

\* Whether the global "q" case returns tea.Quit on this screen.
QuitOnQAnywhere(sc) == TRUE

QuitOnQ(sc) == sc \notin FormScreens

\* The branch of Update a key message takes, in the order the code tests.
Route(key) ==
  IF confirmDelete THEN "deleteConfirm"
  ELSE IF ForceQuitKey(key) THEN "quit"
  ELSE IF key = "q" /\ QuitOnQ(screen) THEN "quit"
  ELSE IF key = "esc" THEN "esc"
  ELSE IF screen \in MenuScreens
    THEN IF key = "enter" THEN "handleEnter" ELSE "delegate"
  ELSE IF screen \in ListScreens THEN "handleRulesListKey"
  ELSE IF key = "enter"
    THEN IF screen \in PolicyFormScreens THEN "handlePolicyFormSubmit"
         ELSE "handleGlobalFormSubmit"
  ELSE IF key \in FocusKeys THEN "cycleFocus"
  ELSE "delegate"

Running == status = "running"

\* Update receives a key message and takes the branch route.
Receive(key, route) ==
  /\ Running
  /\ key \in Keys
  /\ (screen \in FormScreens /\ key \in RuneKeys) => key \in TypedRunes
  /\ Route(key) = route

\* The bound on a run: a message that would make the typed characters and
\* the store calls more than MaxInputs together is not sent.
Budget ==
  /\ calls' = IF lastCall'.op # "none" THEN calls + 1 ELSE calls
  /\ typed' + calls' <= MaxInputs
  /\ started' = TRUE
  /\ UNCHANGED cycles

WindowSizeMsg ==
  /\ Running
  /\ Delegate("resize")
  /\ Budget

OtherMsg ==
  /\ Running
  /\ Delegate("tick")
  /\ Budget

KeyDeleteConfirm(key) ==
  Receive(key, "deleteConfirm") /\ handleDeleteConfirm(key) /\ Budget

KeyQuit(key) == Receive(key, "quit") /\ Quit /\ Budget

KeyEsc(key) == Receive(key, "esc") /\ Esc /\ Budget

KeyEnterMenu(key) == Receive(key, "handleEnter") /\ handleEnter /\ Budget

KeyRulesList(key) ==
  Receive(key, "handleRulesListKey") /\ handleRulesListKey(key) /\ Budget

KeyPolicyFormSubmit(key) ==
  Receive(key, "handlePolicyFormSubmit") /\ handlePolicyFormSubmit /\ Budget

KeyGlobalFormSubmit(key) ==
  Receive(key, "handleGlobalFormSubmit") /\ handleGlobalFormSubmit /\ Budget

KeyCycleFocus(key) == Receive(key, "cycleFocus") /\ cycleFocus(key) /\ Budget

KeyDelegate(key) == Receive(key, "delegate") /\ Delegate(key) /\ Budget

\* Update on a key message.
KeyMsg(key) ==
  \/ KeyDeleteConfirm(key)
  \/ KeyQuit(key)
  \/ KeyEsc(key)
  \/ KeyEnterMenu(key)
  \/ KeyRulesList(key)
  \/ KeyPolicyFormSubmit(key)
  \/ KeyGlobalFormSubmit(key)
  \/ KeyCycleFocus(key)
  \/ KeyDelegate(key)

Next ==
  \/ WindowSizeMsg
  \/ OtherMsg
  \/ \E key \in Keys : KeyMsg(key)

Spec == Init /\ [][Next]_vars

\* ------------------------------------------------- cycleFocus on its own

\* The bound on the net number of forward cycleFocus calls in a run.
MaxCycles == 8

\* The forms as openAddForm / openEditForm leave them: the screen and the
\* freshly initialised fields.
FreshForms ==
  { [screen |-> screenPolicyAddRule, inputs |-> initInputsValues(RuleFields)],
    [screen |-> screenTrustAddGlobalRule,
     inputs |-> initInputsValues(GlobalRuleFields)] }
  \cup { [screen |-> screenPolicyEditRule, inputs |-> RuleInputValues(r)] :
           r \in { InitStoreRules[i] : i \in 1..Len(InitStoreRules) } }
  \cup { [screen |-> screenTrustEditGlobalRule,
          inputs |-> GlobalRuleInputValues(gr)] :
           gr \in { InitStoreGlobalRules[i] :
                      i \in 1..Len(InitStoreGlobalRules) } }

\* A writable console that has just opened a form, with the footer empty or
\* still showing the result of the last store operation.
FocusInit ==
  /\ options = [readOnly |-> FALSE, repo |-> "ok", signer |-> "ok"]
  /\ status = "running"
  /\ readOnly = FALSE
  /\ choiceCursor \in { 0, 1 }
  /\ storeRules = InitStoreRules
  /\ storeGlobalRules = InitStoreGlobalRules
  /\ rules = storeRules
  /\ globalRules = storeGlobalRules
  /\ ruleItems = RuleTitles(rules)
  /\ ruleCursor = 0
  /\ globalItems = GlobalRuleTitles(globalRules)
  /\ globalCursor = 0
  /\ \E form \in FreshForms :
       /\ screen = form.screen
       /\ inputs = form.inputs
       /\ choiceCursor = IF form.screen \in PolicyFormScreens THEN 0 ELSE 1
  /\ focused = initInputsFocus(inputs)
  /\ focusIndex = 0
  /\ footer \in { "", "Rules reordered successfully!" }
  /\ confirmDelete = FALSE
  /\ deleteTarget = <<>>
  /\ typed = 0
  /\ calls = 0
  /\ cycles = 0
  /\ lastCall = NoCall
  /\ started = TRUE

\* Update on a focus key on a form; cycles counts forward moves minus
\* backward moves.
FocusCycle(key) ==
  /\ Receive(key, "cycleFocus")
  /\ cycleFocus(key)
  /\ cycles' = IF key \in BackwardKeys THEN cycles - 1 ELSE cycles + 1
  /\ cycles' \in (0 - MaxCycles)..MaxCycles
  /\ calls' = calls
  /\ started' = TRUE

FocusNext == \E key \in FocusKeys : FocusCycle(key)

FocusSpec == FocusInit /\ [][FocusNext]_vars

\* ------------------------------------------- editing what the store holds

\* Further entities a repository can hold: a rule with the name of R1, a
\* global rule without patterns, a threshold rule with two patterns and a
\* global rule with the name of G1.
R1Again == [name |-> <<"A">>, pattern |-> <<"p">>, key |-> <<"z">>]
G2 == [ruleName |-> <<"H">>, ruleType |-> BlockForcePushesType,
       rulePatterns |-> <<>>, threshold |-> GoInt(0)]
G3 == [ruleName |-> <<"T">>, ruleType |-> GlobalRuleThresholdType,
       rulePatterns |-> << <<"m">>, <<"n">> >>, threshold |-> GoInt(12)]
G1Again == [ruleName |-> <<"G">>, ruleType |-> BlockForcePushesType,
            rulePatterns |-> << <<"n">> >>, threshold |-> GoInt(0)]

EditRuleStores == { <<>>, <<R1, R2>>, <<R1, R1Again>> }
EditGlobalStores == { <<>>, <<G1>>, <<G2>>, <<G3>>, <<G1, G1Again>> }

\* A writable console that has just arrived on a list screen (handleEnter has
\* fetched the collection and rebuilt the list), for each of these stores.
EditInit ==
  /\ options = [readOnly |-> FALSE, repo |-> "ok", signer |-> "ok"]
  /\ status = "running"
  /\ readOnly = FALSE
  /\ screen \in ListScreens
  /\ choiceCursor = IF screen = screenPolicyRules THEN 0 ELSE 1
  /\ storeRules \in EditRuleStores
  /\ storeGlobalRules \in EditGlobalStores
  /\ rules = storeRules
  /\ globalRules = storeGlobalRules
  /\ ruleItems = RuleTitles(rules)
  /\ ruleCursor = 0
  /\ globalItems = GlobalRuleTitles(globalRules)
  /\ globalCursor = 0
  /\ inputs = initInputsValues(RuleFields)
  /\ focused = initInputsFocus(RuleFields)
  /\ focusIndex = 0
  /\ footer = ""
  /\ confirmDelete = FALSE
  /\ deleteTarget = <<>>
  /\ typed = 0
  /\ calls = 0
  /\ cycles = 0
  /\ lastCall = NoCall
  /\ started = TRUE

\* The cursor keys and e on the list, Enter on the form.
EditNext ==
  \/ \E key \in { "up", "down", "e" } : KeyRulesList(key)
  \/ KeyPolicyFormSubmit("enter")
  \/ KeyGlobalFormSubmit("enter")

EditSpec == EditInit /\ [][EditNext]_vars

\* --------------------------------------- submitting a global rule form

\* What the user may have typed into the type and the threshold field.
TypeTexts ==
  { GlobalRuleThresholdType, BlockForcePushesType, <<>>,
    <<"T", "h", "r", "e", "s", "h", "o", "l", "d">> }
ThresholdTexts ==
  { <<>>, <<"2">>, <<"q">>, <<"2", "q">>, <<"-", "3">>, <<"+", "7">>,
    <<"0", "0", "7">>, <<"-">>, <<" ", "2">>,
    MaxInt64Mag, MinInt64Mag, <<"-">> \o MinInt64Mag,
    <<"9">> \o MaxInt64Mag }

\* A writable console on a global rule form (the add form, or the edit form
\* of G1) whose fields the user has filled in, with the focus on any field.
SubmitInit ==
  /\ options = [readOnly |-> FALSE, repo |-> "ok", signer |-> "ok"]
  /\ status = "running"
  /\ readOnly = FALSE
  /\ screen \in GlobalFormScreens
  /\ choiceCursor = 1
  /\ storeRules = InitStoreRules
  /\ storeGlobalRules = InitStoreGlobalRules
  /\ rules = storeRules
  /\ globalRules = storeGlobalRules
  /\ ruleItems = <<>>
  /\ ruleCursor = 0
  /\ globalItems = GlobalRuleTitles(globalRules)
  /\ globalCursor = 0
  /\ \E ty \in TypeTexts, th \in ThresholdTexts :
       inputs = << IF screen = screenTrustAddGlobalRule THEN <<"N">>
                   ELSE <<"G">>,
                   ty, <<"m">>, th >>
  /\ focusIndex \in 0..(Len(GlobalRuleFields) - 1)
  /\ focused = FocusOnly(Len(GlobalRuleFields), focusIndex)
  /\ footer = ""
  /\ confirmDelete = FALSE
  /\ deleteTarget = <<>>
  /\ typed = 0
  /\ calls = 0
  /\ cycles = 0
  /\ lastCall = NoCall
  /\ started = TRUE

SubmitNext == KeyGlobalFormSubmit("enter")

SubmitSpec == SubmitInit /\ [][SubmitNext]_vars

\* ================================================================ claims

\* Every Update of the key message from the current state ends as post says.
Always(key, post) == ~ENABLED (KeyMsg(key) /\ ~post)

\* Some Update of the key message from the current state ends as post says.
Sometimes(key, post) == ENABLED (KeyMsg(key) /\ post)

ReorderUpKeys == { "u", "k" }
ReorderDownKeys == { "j" }

\* A state in which the reorder keys reach handleReorderUp / handleReorderDown.
ReorderState ==
  Running /\ ~confirmDelete /\ ~readOnly /\ screen = screenPolicyRules

\* after is before with the elements at the 0-based positions i and j exchanged.
Exchanged(before, after, i, j) ==
  /\ Len(after) = Len(before)
  /\ \A p \in 1..Len(before) :
       after[p] = IF p = i + 1 THEN before[j + 1]
                  ELSE IF p = j + 1 THEN before[i + 1]
                  ELSE before[p]

\* C1: when a reorder key is pressed on PolicyRules and reorderRules fails,
\* the canonical rule sequence after the event is the one before it (the swap
\* is rolled back), and so still equals the store's sequence.
C1_FailedReorderRolledBack ==
  [][(lastCall'.op = "reorderRules" /\ ~lastCall'.ok)
       => (rules' = rules /\ (rules = storeRules => rules' = storeRules'))]_vars

\* C2: on PolicyRules (not read-only) a reorder-up event leaves the program
\* running with the selected rule and its predecessor exchanged, and a
\* reorder-down event with the selected rule and its successor exchanged;
\* on the first (up) or the last (down) rule the sequence and the footer are
\* unchanged and the store is not called.
C2_ReorderExchangesNeighbours ==
  [][ReorderState =>
        /\ \A key \in ReorderUpKeys :
             KeyMsg(key) =>
               /\ status' = "running"
               /\ IF ListIndex(ruleCursor) = 0
                  THEN rules' = rules /\ footer' = footer /\ lastCall' = NoCall
                  ELSE Exchanged(rules, rules', ListIndex(ruleCursor),
                                 ListIndex(ruleCursor) - 1)
        /\ \A key \in ReorderDownKeys :
             KeyMsg(key) =>
               /\ status' = "running"
               /\ IF ListIndex(ruleCursor) = Len(rules) - 1
                  THEN rules' = rules /\ footer' = footer /\ lastCall' = NoCall
                  ELSE Exchanged(rules, rules', ListIndex(ruleCursor),
                                 ListIndex(ruleCursor) + 1)]_vars

\* C3: in read-only mode the keys a, e, d, u, k, j on PolicyRules or
\* TrustGlobalRules leave both collections unchanged, call no store
\* operation, do not open the delete overlay and do not change the screen.
MutatingKeys == { "a", "e", "d", "u", "k", "j" }

C3_ReadOnlyKeysMutateNothing ==
  (Running /\ readOnly /\ screen \in ListScreens) =>
    \A key \in MutatingKeys :
      /\ ENABLED KeyMsg(key)
      /\ Always(key, /\ rules' = rules
                     /\ globalRules' = globalRules
                     /\ storeRules' = storeRules
                     /\ storeGlobalRules' = storeGlobalRules
                     /\ lastCall' = NoCall
                     /\ ~confirmDelete'
                     /\ screen' = screen
                     /\ status' = "running")

\* A read-only console on PolicyRules showing both rules, where j moves the
\* cursor and nothing else.
C3_Witness ==
  /\ Running /\ readOnly /\ screen = screenPolicyRules
  /\ Len(ruleItems) = 2 /\ ruleCursor = 0
  /\ Sometimes("j", ruleCursor' = 1 /\ rules' = rules)

\* C4: while the delete overlay is active the store's remove operation is
\* called only by the key y, with the captured target; every other key calls
\* nothing, leaves both collections, the screen and the footer unchanged and
\* closes the overlay with the target cleared.
C4_OnlyYRemoves ==
  (Running /\ confirmDelete) =>
    \A key \in Keys :
      Always(key,
        IF key = "y"
        THEN /\ lastCall'.op =
                  IF screen = screenPolicyRules THEN "removeRule"
                  ELSE "removeGlobalRule"
             /\ lastCall'.arg = deleteTarget
        ELSE /\ lastCall' = NoCall
             /\ rules' = rules
             /\ globalRules' = globalRules
             /\ storeRules' = storeRules
             /\ storeGlobalRules' = storeGlobalRules
             /\ screen' = screen
             /\ footer' = footer
             /\ ~confirmDelete'
             /\ deleteTarget' = <<>>)

\* The overlay is open on rule B, where y removes B from the store and Y
\* only closes the overlay.
C4_Witness ==
  /\ Running /\ confirmDelete /\ screen = screenPolicyRules
  /\ deleteTarget = <<"B">>
  /\ Sometimes("y", lastCall'.ok /\ Len(storeRules') = Len(storeRules) - 1)
  /\ Sometimes("Y", ~confirmDelete' /\ storeRules' = storeRules)

\* C5 as stated: in every reachable state ctrl+c terminates the program.
C5_CtrlCAlwaysQuits ==
  Running => (ENABLED KeyMsg("ctrl+c") /\ Always("ctrl+c", status' = "quit"))

\* C5: on each of the nine screens, when the delete overlay is not active,
\* ctrl+c terminates the program; while the overlay is active ctrl+c is taken
\* by the overlay, which closes and leaves the program running.
C5_CtrlCQuitsOutsideOverlay ==
  Running =>
    /\ ENABLED KeyMsg("ctrl+c")
    /\ IF confirmDelete
       THEN Always("ctrl+c", status' = "running" /\ ~confirmDelete')
       ELSE Always("ctrl+c", status' = "quit")

\* The program has terminated on a form screen, where q is typed into a
\* field: only ctrl+c ends the program there.
C5_Witness == status = "quit" /\ screen = screenTrustEditGlobalRule

\* The effect of delivering q to the focused field of a form: the field at
\* the focus index has the focus and takes the q at its end unless it already
\* holds CharLimit characters; the other fields are unchanged.
TypedIntoFocused ==
  /\ focused[focusIndex + 1]
  /\ inputs' = [inputs EXCEPT ![focusIndex + 1] =
                  IF Len(@) < CharLimit THEN Append(@, "q") ELSE @]

C7_FooterChangesOnlyOnEscOrStoreCall ==
  [][footer' # footer =>
       \/ KeyMsg("esc") /\ footer' = ""
       \/ lastCall'.op # "none"]_vars

\* The table of parent screens of section 4.1.
ParentScreen ==
  [sc \in Screens |->
     IF sc \in { screenChoice, screenPolicy, screenTrust } THEN screenChoice
     ELSE IF sc = screenPolicyRules THEN screenPolicy
     ELSE IF sc = screenTrustGlobalRules THEN screenTrust
     ELSE IF sc \in { screenPolicyAddRule, screenPolicyEditRule }
     THEN screenPolicyRules
     ELSE screenTrustGlobalRules]

\* C8: when the delete overlay is not active, esc empties the footer and
\* moves to the parent screen, calls no store operation and leaves both
\* collections unchanged.
C8_EscGoesToParent ==
  (Running /\ ~confirmDelete) =>
    /\ ENABLED KeyMsg("esc")
    /\ Always("esc", /\ footer' = ""
                     /\ screen' = ParentScreen[screen]
                     /\ status' = "running"
                     /\ lastCall' = NoCall
                     /\ rules' = rules
                     /\ globalRules' = globalRules
                     /\ storeRules' = storeRules
                     /\ storeGlobalRules' = storeGlobalRules)

\* The edit form reached with a result still in the footer, where esc goes
\* back to PolicyRules with the footer empty.
C8_Witness ==
  /\ Running /\ screen = screenPolicyEditRule /\ footer # ""
  /\ Sometimes("esc", screen' = screenPolicyRules /\ footer' = "")

\* The list screen a form belongs to.
FormList(sc) ==
  IF sc \in PolicyFormScreens THEN screenPolicyRules
  ELSE screenTrustGlobalRules

\* C9: a form screen is entered only from its list screen (PolicyAddRule and
\* PolicyEditRule from PolicyRules, TrustAddGlobalRule and
\* TrustEditGlobalRule from TrustGlobalRules) and is left only to that list
\* screen.
C9_FormsEnteredAndLeftViaList ==
  [][screen' # screen =>
       /\ screen' \in FormScreens => screen = FormList(screen')
       /\ screen \in FormScreens => screen' = FormList(screen)]_vars

\* Back on TrustGlobalRules after the edit form was entered and left by a
\* successful submit.
C9_Witness ==
  /\ Running /\ screen = screenTrustGlobalRules
  /\ lastCall.op = "updateGlobalRule" /\ lastCall.ok

\* C10: on a freshly initialised form, after forward moves and undone
\* forward/backward pairs that amount to N forward moves the focus is on
\* field N mod field_count; a forward move from the last field gives field 0,
\* a backward move from field 0 gives the last field, and exactly one field
\* has the focus.
C10_FocusWrapsAround ==
  /\ focusIndex = cycles % Len(inputs)
  /\ focused = FocusOnly(Len(inputs), focusIndex)
  /\ \A key \in FocusKeys \ BackwardKeys :
       focusIndex = Len(inputs) - 1 =>
         ~ENABLED (FocusCycle(key) /\ focusIndex' # 0)
  /\ \A key \in BackwardKeys :
       /\ focusIndex = 0 =>
            ~ENABLED (FocusCycle(key) /\ focusIndex' # Len(inputs) - 1)
       /\ \A fwd \in FocusKeys \ BackwardKeys :
            cycleFocusIndex(key,
                cycleFocusIndex(fwd, focusIndex, Len(inputs)),
                Len(inputs)) = focusIndex

\* Six forward moves on the four-field global rule form: the focus has
\* wrapped around to field 2.
C10_Witness ==
  /\ screen = screenTrustAddGlobalRule
  /\ cycles = 6 /\ focusIndex = 2

\* The store operation a submit on each form screen calls.
SubmitOp ==
  [sc \in FormScreens |->
     IF sc = screenPolicyAddRule THEN "addRule"
     ELSE IF sc = screenPolicyEditRule THEN "updateRule"
     ELSE IF sc = screenTrustAddGlobalRule THEN "addGlobalRule"
     ELSE "updateGlobalRule"]

\* The number of fields of the form of each form screen.
FieldCount ==
  [sc \in FormScreens |-> IF sc \in PolicyFormScreens THEN 3 ELSE 4]

\* C11: on a form screen Enter with the focus below the last field moves the
\* focus one field forward and calls nothing; Enter with the focus on the last
\* field (field 3 of a rule form, field 4 of a global rule form) calls the
\* store operation of the screen (add on the Add screens, update on the Edit
\* screens) and leaves the focus where it is; no other key on a form calls the
\* store.  A form opens with the focus on
\* field 1, so the store is called on exactly the k-th Enter.
C11_EnterSubmitsOnLastFieldOnly ==
  (Running /\ screen \in FormScreens) =>
    /\ Len(inputs) = FieldCount[screen]
    /\ focusIndex \in 0..(Len(inputs) - 1)
    /\ IF focusIndex < Len(inputs) - 1
       THEN /\ ENABLED KeyMsg("enter")
            /\ Always("enter", /\ focusIndex' = focusIndex + 1
                               /\ lastCall' = NoCall
                               /\ storeRules' = storeRules
                               /\ storeGlobalRules' = storeGlobalRules
                               /\ screen' = screen
                               /\ inputs' = inputs)
       ELSE /\ typed + calls < MaxInputs => ENABLED KeyMsg("enter")
            /\ Always("enter", /\ lastCall'.op = SubmitOp[screen]
                               /\ focusIndex' = focusIndex)
    /\ \A key \in Keys \ { "enter" } : Always(key, lastCall' = NoCall)

\* The third Enter on the add-rule form has called addRule, which failed: the
\* form is still open with the focus on the last field.
C11_Witness ==
  /\ Running /\ screen = screenPolicyAddRule /\ focusIndex = 2
  /\ lastCall.op = "addRule" /\ ~lastCall.ok

\* The success text of each form screen's submit.
SubmitFooter ==
  [sc \in FormScreens |->
     IF sc = screenPolicyAddRule THEN "Rule added successfully!"
     ELSE IF sc = screenPolicyEditRule THEN "Rule updated successfully!"
     ELSE IF sc = screenTrustAddGlobalRule THEN "Global rule added!"
     ELSE "Global rule updated!"]

\* An Enter on the last field of a form whose store call succeeds / fails.
SubmitSucceeds ==
  /\ screen \in FormScreens /\ KeyMsg("enter")
  /\ lastCall'.op = SubmitOp[screen] /\ lastCall'.ok

SubmitFails ==
  /\ screen \in FormScreens /\ KeyMsg("enter")
  /\ lastCall'.op = SubmitOp[screen] /\ ~lastCall'.ok

\* C12: after an Enter on the last field of a form whose add/update succeeds,
\* the canonical collection of that kind is the store's content after the
\* mutation, the list view is rebuilt from it, the screen is the form's list
\* screen and the footer is the success text of the operation.
C12_SuccessfulSubmitRefreshes ==
  [][SubmitSucceeds =>
       /\ status' = "running"
       /\ screen' = FormList(screen)
       /\ footer' = SubmitFooter[screen]
       /\ IF screen \in PolicyFormScreens
          THEN /\ rules' = storeRules'
               /\ ruleItems' = RuleTitles(storeRules')
          ELSE /\ globalRules' = storeGlobalRules'
               /\ globalItems' = GlobalRuleTitles(storeGlobalRules')]_vars

\* Back on TrustGlobalRules after a global rule was added: the store, the
\* canonical collection and the list view hold two global rules.
C12_Witness ==
  /\ Running /\ screen = screenTrustGlobalRules
  /\ lastCall.op = "addGlobalRule" /\ lastCall.ok
  /\ Len(storeGlobalRules) = 2 /\ Len(globalRules) = 2 /\ Len(globalItems) = 2
  /\ footer = "Global rule added!"

\* C14: after an Enter on the last field of a form whose add/update fails,
\* the screen is still the form, every field value, the focus and the focus
\* index are unchanged, both canonical collections are unchanged and the
\* footer is an error text that contains the failure detail.
C14_FailedSubmitKeepsForm ==
  [][SubmitFails =>
       /\ status' = "running"
       /\ screen' = screen
       /\ inputs' = inputs
       /\ focused' = focused
       /\ focusIndex' = focusIndex
       /\ rules' = rules
       /\ globalRules' = globalRules
       /\ storeRules' = storeRules
       /\ storeGlobalRules' = storeGlobalRules
       /\ footer' = "Error: " \o StoreErr]_vars

\* The edit form of rule B after its update failed: the form still holds
\* B's values with a q typed after the pattern, and the footer shows the
\* error.
C14_Witness ==
  /\ Running /\ screen = screenPolicyEditRule
  /\ lastCall.op = "updateRule" /\ ~lastCall.ok
  /\ inputs = << <<"B">>, <<"n", "q">>, <<"x", ",", "z">> >>
  /\ footer = "Error: store error"

\* C16: after y in the delete overlay the overlay is inactive, the target is
\* empty and the screen is unchanged, whether the removal succeeded or
\* failed; the call is removeRule on PolicyRules and removeGlobalRule on
\* TrustGlobalRules; on success the canonical collection of that kind is the
\* store's content after the removal and the footer is the success text; on
\* failure both canonical collections are unchanged and the footer is the
\* error text.
C16_ConfirmedDeleteOutcome ==
  (Running /\ confirmDelete) =>
    /\ screen \in ListScreens
    /\ typed + calls < MaxInputs => ENABLED KeyMsg("y")
    /\ Always("y",
         /\ ~confirmDelete' /\ deleteTarget' = <<>>
         /\ screen' = screen /\ status' = "running"
         /\ lastCall'.op = IF screen = screenPolicyRules THEN "removeRule"
                           ELSE "removeGlobalRule"
         /\ IF lastCall'.ok
            THEN IF screen = screenPolicyRules
                 THEN /\ rules' = storeRules'
                      /\ footer' = "Rule removed successfully!"
                 ELSE /\ globalRules' = storeGlobalRules'
                      /\ footer' = "Global rule removed!"
            ELSE /\ rules' = rules /\ globalRules' = globalRules
                 /\ storeRules' = storeRules
                 /\ storeGlobalRules' = storeGlobalRules
                 /\ footer' = (IF screen = screenPolicyRules
                               THEN "Error removing rule: "
                               ELSE "Error removing global rule: ") \o StoreErr)

\* The overlay on the only global rule, where y can remove it (leaving the
\* collection empty) or fail.
C16_Witness ==
  /\ Running /\ confirmDelete /\ screen = screenTrustGlobalRules
  /\ deleteTarget = <<"G">>
  /\ Sometimes("y", lastCall'.ok /\ globalRules' = <<>>)
  /\ Sometimes("y", ~lastCall'.ok /\ globalRules' = globalRules /\ ~confirmDelete')

\* C18: whenever the screen is PolicyRules the list view is the projection of
\* the canonical rules (same length, the i-th title is the i-th rule's name),
\* and whenever the screen is TrustGlobalRules the list view is the
\* projection of the canonical global rules.
C18_ListViewIsProjection ==
  Running =>
    /\ screen = screenPolicyRules =>
         /\ Len(ruleItems) = Len(rules)
         /\ \A i \in 1..Len(rules) : ruleItems[i] = rules[i].name
    /\ screen = screenTrustGlobalRules =>
         /\ Len(globalItems) = Len(globalRules)
         /\ \A i \in 1..Len(globalRules) : globalItems[i] = globalRules[i].ruleName

\* C19: Enter on the Policy screen moves to PolicyRules with the canonical
\* rules equal to the store's current sequence and the list view rebuilt from
\* it, whatever the in-memory sequence was before; Enter on the Trust screen
\* moves to TrustGlobalRules with the canonical global rules equal to the
\* store's.  Neither changes the store.
C19_EnterOnMenuRefetches ==
  Running =>
    /\ screen = screenPolicy =>
         /\ ENABLED KeyMsg("enter")
         /\ Always("enter", /\ screen' = screenPolicyRules
                            /\ rules' = storeRules
                            /\ ruleItems' = RuleTitles(storeRules)
                            /\ storeRules' = storeRules
                            /\ lastCall' = NoCall)
    /\ screen = screenTrust =>
         /\ ENABLED KeyMsg("enter")
         /\ Always("enter", /\ screen' = screenTrustGlobalRules
                            /\ globalRules' = storeGlobalRules
                            /\ globalItems' = GlobalRuleTitles(storeGlobalRules)
                            /\ storeGlobalRules' = storeGlobalRules
                            /\ lastCall' = NoCall)

\* The Policy screen reached with the in-memory rules in another order than
\* the store's (a reorder failed earlier), where Enter brings the store's
\* order back.
C19_Witness ==
  /\ Running /\ screen = screenPolicy
  /\ rules # storeRules
  /\ Sometimes("enter", rules' = storeRules /\ screen' = screenPolicyRules)

\* C17: in the state initialModel returns, read-only is true exactly when it
\* was requested or the signer failed to load with ErrSigningKeyNotSpecified,
\* and then the footer is a non-empty message; initialModel returns no model
\* exactly when the repository fails to load or the signer fails to load
\* with another error.
C17_ReadOnlyStartIsExplained ==
  ~started =>
    /\ status \in { "running", "aborted" }
    /\ status = "aborted" <=>
         \/ options.repo = "error"
         \/ options.signer = "error"
    /\ status = "running" =>
         /\ readOnly <=>
              \/ options.readOnly
              \/ options.signer = "ErrSigningKeyNotSpecified"
         /\ readOnly => footer # ""

\* The first entity of a collection whose name (field f) is the title the
\* cursor of the list view is on.
FirstNamed(coll, f, items, cursor) ==
  coll[CHOOSE i \in 1..Len(coll) :
         /\ coll[i][f] = items[cursor + 1]
         /\ \A j \in 1..(i - 1) : coll[j][f] # items[cursor + 1]]

\* C13: e on a rule or global rule followed by Enter on each field without
\* editing passes to updateRule / updateGlobalRule an entity with the
\* observable fields of the entity the form was opened on: the same name, the
\* same pattern and the principals that its key encodes (Rule); the same
\* type, the same pattern sequence, the empty one included, and, for the
\* threshold type, the same threshold (GlobalRule).
C13_EditWithoutChangeRoundTrips ==
  [][/\ (screen = screenPolicyEditRule /\ KeyPolicyFormSubmit("enter")
           /\ lastCall'.op = "updateRule") =>
          LET r == FirstNamed(rules, "name", ruleItems, ruleCursor)
          IN /\ lastCall'.arg.rule.name = r.name
             /\ lastCall'.arg.rule.pattern = r.pattern
             /\ lastCall'.arg.rule.key = r.key
             /\ lastCall'.arg.principals = splitAndTrim(r.key)
     /\ (screen = screenTrustEditGlobalRule /\ KeyGlobalFormSubmit("enter")
           /\ lastCall'.op = "updateGlobalRule") =>
          LET gr == FirstNamed(globalRules, "ruleName", globalItems, globalCursor)
          IN /\ lastCall'.arg.ruleName = gr.ruleName
             /\ lastCall'.arg.ruleType = gr.ruleType
             /\ lastCall'.arg.rulePatterns = gr.rulePatterns
             /\ gr.ruleType = GlobalRuleThresholdType =>
                  lastCall'.arg.threshold = gr.threshold]_vars

\* Whether the cursor of a list view is on an item whose title is the name
\* of some entity of the collection.
SelectionMatches(coll, f, items, cursor) ==
  /\ cursor >= 0 /\ cursor < Len(items)
  /\ \E i \in 1..Len(coll) : coll[i][f] = items[cursor + 1]

\* C20: e on a list screen (not read-only) opens the edit form with the
\* values of the first entity, in canonical order, whose name is the selected
\* title, also when a later entity of that name is the selected one; when no
\* item is selected or no entity has that name the screen stays the list
\* screen and the form fields are not reinitialised.
C20_EditPrefillsFromFirstMatch ==
  (Running /\ ~readOnly /\ ~confirmDelete /\ screen \in ListScreens) =>
    /\ ENABLED KeyMsg("e")
    /\ Always("e",
         /\ lastCall' = NoCall /\ status' = "running"
         /\ rules' = rules /\ globalRules' = globalRules
         /\ IF screen = screenPolicyRules
            THEN IF SelectionMatches(rules, "name", ruleItems, ruleCursor)
                 THEN LET r == FirstNamed(rules, "name", ruleItems, ruleCursor)
                      IN /\ screen' = screenPolicyEditRule
                         /\ inputs' = << r.name, r.pattern, r.key >>
                         /\ focusIndex' = 0
                 ELSE /\ screen' = screen /\ inputs' = inputs
                      /\ focusIndex' = focusIndex /\ focused' = focused
            ELSE IF SelectionMatches(globalRules, "ruleName", globalItems,
                                     globalCursor)
                 THEN LET gr == FirstNamed(globalRules, "ruleName", globalItems,
                                           globalCursor)
                      IN /\ screen' = screenTrustEditGlobalRule
                         /\ inputs'[1] = gr.ruleName
                         /\ inputs'[2] = gr.ruleType
                         /\ inputs'[3] = Join(gr.rulePatterns)
                         /\ Len(inputs') = 4
                         /\ focusIndex' = 0
                 ELSE /\ screen' = screen /\ inputs' = inputs
                      /\ focusIndex' = focusIndex /\ focused' = focused)

\* Two rules named A with the cursor on the second, where e opens the form
\* with the pattern of the first.
C20_Witness ==
  /\ Running /\ screen = screenPolicyRules /\ ~readOnly /\ ~confirmDelete
  /\ Len(rules) = 2 /\ rules[1].name = rules[2].name
  /\ rules[1].pattern # rules[2].pattern
  /\ ruleCursor = 1
  /\ Sometimes("e", screen' = screenPolicyEditRule /\ inputs'[2] = rules[1].pattern)

\* A text parses as an integer when it is an optional sign followed by one
\* or more decimal digits and its value is in the range of a Go int.
ParsesAsInteger(s) ==
  LET body == IF s # <<>> /\ Head(s) \in { "+", "-" } THEN Tail(s) ELSE s
  IN /\ body # <<>>
     /\ \A i \in 1..Len(body) : IsDigit(body[i])
     /\ IF s # <<>> /\ Head(s) = "-"
        THEN ~MagGreater(StripZeros(body), MinInt64Mag)
        ELSE ~MagGreater(StripZeros(body), MaxInt64Mag)

\* The integer a text that parses stands for.
IntegerValue(s) ==
  LET neg == Head(s) = "-"
      body == IF Head(s) \in { "+", "-" } THEN Tail(s) ELSE s
  IN [neg |-> neg /\ StripZeros(body) # <<"0">>, mag |-> StripZeros(body)]

\* C15: Enter on the last field of a global rule form passes to the store a
\* global rule whose threshold is the integer value of the threshold field
\* when the type field is exactly the threshold-type constant and the
\* threshold field parses as an integer, and 0 when the type field is
\* anything else or the threshold field does not parse; a field that does
\* not parse neither prevents the store call nor gives an error footer.
C15_ThresholdFromFields ==
  (Running /\ screen \in GlobalFormScreens /\ focusIndex = Len(inputs) - 1) =>
    /\ typed + calls < MaxInputs => ENABLED KeyMsg("enter")
    /\ Always("enter",
         /\ lastCall'.op = SubmitOp[screen]
         /\ lastCall'.arg.threshold =
              IF inputs[2] = GlobalRuleThresholdType /\ ParsesAsInteger(inputs[4])
              THEN IntegerValue(inputs[4])
              ELSE GoInt(0)
         /\ lastCall'.ok => footer' = SubmitFooter[screen])

\* C21: a reorder-up or reorder-down event on PolicyRules never fails on an
\* index outside the canonical sequence, and whenever it swaps (and calls
\* reorderRules) the selected list index and the neighbour it is exchanged
\* with are both positions 0..len(rules)-1 of the canonical sequence.
C21_ReorderIndexInRange ==
  [][\A key \in ReorderUpKeys \cup ReorderDownKeys :
       (ReorderState /\ KeyMsg(key)) =>
         /\ status' # "panic"
         /\ lastCall'.op = "reorderRules" =>
              /\ ListIndex(ruleCursor) \in 0..(Len(rules) - 1)
              /\ (IF key \in ReorderUpKeys
                  THEN ListIndex(ruleCursor) - 1
                  ELSE ListIndex(ruleCursor) + 1) \in 0..(Len(rules) - 1)]_vars

\* after is before with two adjacent, different elements exchanged.
AdjacentTransposition(before, after) ==
  \E i \in 0..(Len(before) - 2) :
    /\ before[i + 1] # before[i + 2]
    /\ Exchanged(before, after, i, i + 1)

\* C22: every sequence passed to the store's reorderRules differs from the
\* store's rule sequence at the time of the call by exactly one
\* transposition of two adjacent elements, so a swap whose persistence
\* failed is not written by a later reorder.
C22_ReorderPassesOneTransposition ==
  [][lastCall'.op = "reorderRules"
       => AdjacentTransposition(storeRules, lastCall'.arg)]_vars

\* C23: in every state of a constructed console the focus index is a
\* position of the input field sequence, exactly one input field is focused
\* and it is the one at the focus index, and there are 3 fields on the
\* policy rule forms and 4 on the global rule forms.
C23_FocusIndexAndFieldsInRange ==
  status # "aborted" =>
    /\ focusIndex \in 0..(Len(inputs) - 1)
    /\ Len(focused) = Len(inputs)
    /\ \A i \in 1..Len(inputs) : focused[i] <=> (i - 1 = focusIndex)
    /\ screen \in PolicyFormScreens => Len(inputs) = 3
    /\ screen \in GlobalFormScreens => Len(inputs) = 4

\* The edit form of a global rule after the focus was moved back from the
\* first field to the fourth.
C23_Witness ==
  /\ Running /\ screen = screenTrustEditGlobalRule
  /\ focusIndex = 3 /\ focused[4] /\ Len(inputs) = 4

\* The title of the item at the list index of the current list screen.
TitleAtIndexOnScreen ==
  IF screen = screenPolicyRules THEN ruleItems[ListIndex(ruleCursor) + 1]
  ELSE globalItems[ListIndex(globalCursor) + 1]

\* C24: while the delete-confirmation overlay is active the screen is
\* PolicyRules or TrustGlobalRules, the console is not read-only, an item is
\* selected and the captured target is its title (the item selected when d
\* was pressed), and no key event changes the screen, the focus index, the
\* form fields or a list cursor; while the overlay is inactive the captured
\* target is empty.
C24_OverlayInvariant ==
  IF confirmDelete
  THEN /\ screen \in ListScreens
       /\ ~readOnly
       /\ DeleteSelected
       /\ deleteTarget = TitleAtIndexOnScreen
       /\ \A key \in Keys :
            Always(key, /\ screen' = screen
                        /\ focusIndex' = focusIndex
                        /\ inputs' = inputs
                        /\ focused' = focused
                        /\ choiceCursor' = choiceCursor
                        /\ ruleCursor' = ruleCursor
                        /\ globalCursor' = globalCursor)
  ELSE deleteTarget = <<>>

\* The overlay over the second policy rule, opened by d after the cursor was
\* moved down; y removes the rule and leaves the cursor where it was.
C24_Witness ==
  /\ Running /\ confirmDelete /\ screen = screenPolicyRules
  /\ ruleCursor = 1 /\ deleteTarget = <<"B">>
  /\ Sometimes("y", lastCall'.ok /\ Len(ruleItems') = 1 /\ ruleCursor' = 1)
  /\ Sometimes("esc", ~confirmDelete' /\ deleteTarget' = <<>>)

\* The store operations that change the repository.
MutatingStoreOps ==
  { "addRule", "updateRule", "removeRule", "reorderRules",
    "addGlobalRule", "updateGlobalRule", "removeGlobalRule" }

\* C25: no event changes the read-only flag, in either mode; and in a
\* console that started read-only the screen is never one of the four form
\* screens, the delete overlay is never active and no mutating store
\* operation has been called.
C25_ReadOnlyForever ==
  /\ [][readOnly' = readOnly]_vars
  /\ [](readOnly => /\ screen \notin FormScreens
                    /\ ~confirmDelete
                    /\ lastCall.op \notin MutatingStoreOps
                    /\ calls = 0)

\* A read-only console on TrustGlobalRules with a global rule selected,
\* after some event: a, e and d open no form and no overlay.
C25_Witness ==
  /\ Running /\ readOnly /\ started /\ screen = screenTrustGlobalRules
  /\ HasSelected(globalItems, globalCursor)
  /\ \A key \in { "a", "e", "d" } :
       Sometimes(key, screen' = screen /\ ~confirmDelete')

====
